---- MODULE Spec2Model ----
(***************************************************************************)
(* Spike-factor analysis and outbreak-confidence scoring of the pharmacy   *)
(* dashboard (src/components/disease_prediction.py).                       *)
(*                                                                         *)
(* Dates are day numbers counted from 1970-01-01.  Floating point values   *)
(* of the source are held exactly: baseline_avg and spike_percentage as    *)
(* fractions [num, den] with den > 0, the confidence in half points        *)
(* (Half units per point), since the scorer adds and subtracts 0.5.        *)
(***************************************************************************)
EXTENDS Integers, Sequences, FiniteSets, TLC

VARIABLES medicine_name, period_type, sales_df, campaigns_df,
          analysis, confidence, pc

vars == <<medicine_name, period_type, sales_df, campaigns_df,
          analysis, confidence, pc>>

(***************************************************************************)
(* Bounds of the model.                                                    *)
(***************************************************************************)
MaxSales == 5
MaxFactors == 3
MaxRows == 3

(***************************************************************************)
(* Calendar: what pandas computes for .dt.year, .dt.month,                 *)
(* .dt.isocalendar().week and date differences.                            *)
(***************************************************************************)
\* Day number of a civil date (proleptic Gregorian calendar)
DayOfEra(yoe, doy) == yoe * 365 + yoe \div 4 - yoe \div 100 + doy

DayOfYear(mp, d) == (153 * mp + 2) \div 5 + d - 1

DaysOfShifted(yy, mp, d) ==
    (yy \div 400) * 146097 + DayOfEra(yy % 400, DayOfYear(mp, d)) - 719468

DaysFromCivil(y, m, d) ==
    DaysOfShifted(IF m <= 2 THEN y - 1 ELSE y, IF m > 2 THEN m - 3 ELSE m + 9, d)

\* Civil date of a day number
YearOfEra(doe) ==
    (doe - doe \div 1460 + doe \div 36524 - doe \div 146096) \div 365

CivilOfMonth(y, m, d) ==
    [year |-> y + (IF m <= 2 THEN 1 ELSE 0), month |-> m, day |-> d]

CivilOfShifted(y, doy, mp) ==
    CivilOfMonth(y, IF mp < 10 THEN mp + 3 ELSE mp - 9,
                 doy - (153 * mp + 2) \div 5 + 1)

CivilOfDayOfYear(y, doy) == CivilOfShifted(y, doy, (5 * doy + 2) \div 153)

CivilOfYearOfEra(era, doe, yoe) ==
    CivilOfDayOfYear(yoe + era * 400,
                     doe - (365 * yoe + yoe \div 4 - yoe \div 100))

CivilOfEra(era, doe) == CivilOfYearOfEra(era, doe, YearOfEra(doe))

CivilOfZ(z) == CivilOfEra(z \div 146097, z % 146097)

CivilFromDays(days) == CivilOfZ(days + 719468)

\* date.dt.year
YearOf(date) == CivilFromDays(date).year

\* date.dt.month / period_start.month
MonthOf(date) == CivilFromDays(date).month

\* Monday = 0 .. Sunday = 6; 1970-01-01 was a Thursday
WeekdayOf(date) == (date + 3) % 7

\* The Thursday of the ISO week of a date decides the ISO year and week.
IsoThursday(date) == date - WeekdayOf(date) + 3

IsoYearOf(date) == YearOf(IsoThursday(date))

\* date.dt.isocalendar().week
IsoWeekOfThursday(thursday) ==
    (thursday - DaysFromCivil(YearOf(thursday), 1, 1)) \div 7 + 1

IsoWeekOf(date) == IsoWeekOfThursday(IsoThursday(date))

(***************************************************************************)
(* Helpers over tables (sequences of rows).                                *)
(***************************************************************************)
RECURSIVE SumQuantity(_)
SumQuantity(rows) ==
    IF rows = <<>> THEN 0
    ELSE Head(rows).quantity + SumQuantity(Tail(rows))

Range(s) == {s[i] : i \in DOMAIN s}

DatesOf(rows) == {r.date : r \in Range(rows)}

MinOf(S) == CHOOSE x \in S : \A y \in S : x <= y
MaxOf(S) == CHOOSE x \in S : \A y \in S : x >= y

\* The value Python's None stands for
None == [kind |-> "None"]

\* The outcome of a call that ends in an uncaught KeyError
KeyError == [kind |-> "KeyError"]

(***************************************************************************)
(* Period aggregation (analyze_sales_spike_factors, lines 54-90).          *)
(***************************************************************************)
\* Mutant: the records of every medicine are analysed
medicine_sales_unfiltered(name, sales) == sales

\* sales_df_copy[sales_df_copy['medicine_name'] == medicine_name]
medicine_sales_of(name, sales) ==
    SelectSeq(sales, LAMBDA r : r.medicine_name = name)

\* The period_key column.  Weekly: str(date.dt.year) + "-W" + the ISO week
\* number, two digits; Monthly: date.dt.to_period('M') as "YYYY-MM".  Both
\* strings determine and are determined by the pair held here.
period_key(ptype, date) ==
    IF ptype = "Weekly"
    THEN [year |-> YearOf(date), week |-> IsoWeekOf(date)]
    ELSE [year |-> YearOf(date), month |-> MonthOf(date)]

\* One row of the groupby('period_key') aggregate, from the rows of the key
period_of_rows(key, lo, hi, total) ==
    [period         |-> key,
     total_quantity |-> total,
     start_date     |-> lo,
     end_date       |-> hi,
     \* (end_date - start_date).dt.days + 1
     period_days    |-> (hi - lo) + 1]

period_of_dates(key, dates, total) ==
    period_of_rows(key, MinOf(dates), MaxOf(dates), total)

period_of_bucket(key, rows) ==
    period_of_dates(key, DatesOf(rows), SumQuantity(rows))

period_row(ptype, msales, key) ==
    period_of_bucket(key,
        SelectSeq(msales, LAMBDA r : period_key(ptype, r.date) = key))

\* sort_values('start_date'): the buckets of distinct keys have distinct
\* first dates, so the order is determined
FirstByStart(S) == CHOOSE p \in S : \A q \in S : p.start_date <= q.start_date

RECURSIVE SortByStart(_)
SortByStartFrom(first, S) == <<first>> \o SortByStart(S \ {first})

SortByStart(S) ==
    IF S = {} THEN <<>> ELSE SortByStartFrom(FirstByStart(S), S)

period_sales(ptype, msales) ==
    SortByStart({period_row(ptype, msales, k) :
                    k \in {period_key(ptype, r.date) : r \in Range(msales)}})

min_days(ptype) == IF ptype = "Weekly" THEN 5 ELSE 20

\* Mutant: the completeness filter is dropped
valid_periods_unfiltered(ptype, msales) == period_sales(ptype, msales)

\* period_sales[period_sales['period_days'] >= min_days]
valid_periods(ptype, msales) ==
    SelectSeq(period_sales(ptype, msales),
              LAMBDA p : p.period_days >= min_days(ptype))

(***************************************************************************)
(* Binary floating point (float64), for the values whose rounding decides  *)
(* a comparison.  A positive float is 2^e * 1.m, the 52 fraction bits m    *)
(* held as four limbs of 13 bits, most significant first.  Division of two *)
(* integers and multiplication by a small integer round to nearest, ties   *)
(* to even, as the hardware does.                                          *)
(***************************************************************************)
Limb == 8192

RECURSIVE Pow2(_)
Pow2(k) == IF k <= 0 THEN 1 ELSE 2 * Pow2(k - 1)

\* e with 2^e <= a / b < 2^(e+1), for a, b > 0
RECURSIVE FloatExponent(_, _)
FloatExponent(a, b) ==
    IF a >= 2 * b THEN 1 + FloatExponent(a, 2 * b)
    ELSE IF a < b THEN FloatExponent(2 * a, b) - 1
    ELSE 0

\* The next float above 2^e * 1.m
FloatNext(e, m) ==
    IF m[4] + 1 < Limb THEN [e |-> e, m |-> <<m[1], m[2], m[3], m[4] + 1>>]
    ELSE IF m[3] + 1 < Limb THEN [e |-> e, m |-> <<m[1], m[2], m[3] + 1, 0>>]
    ELSE IF m[2] + 1 < Limb THEN [e |-> e, m |-> <<m[1], m[2] + 1, 0, 0>>]
    ELSE IF m[1] + 1 < Limb THEN [e |-> e, m |-> <<m[1] + 1, 0, 0, 0>>]
    ELSE [e |-> e + 1, m |-> <<0, 0, 0, 0>>]

\* Round to nearest, ties to even: rest / unit is the part below the last bit
FloatRounded(e, m, rest, unit) ==
    IF 2 * rest > unit \/ (2 * rest = unit /\ m[4] % 2 = 1)
    THEN FloatNext(e, m)
    ELSE [e |-> e, m |-> m]

\* Long division by b, one limb at a time; x is the scaled remainder
FloatQuotient4(e, b, m1, m2, m3, x) ==
    FloatRounded(e, <<m1, m2, m3, x \div b>>, x % b, b)

FloatQuotient3(e, b, m1, m2, x) ==
    FloatQuotient4(e, b, m1, m2, x \div b, (x % b) * Limb)

FloatQuotient2(e, b, m1, x) ==
    FloatQuotient3(e, b, m1, x \div b, (x % b) * Limb)

FloatQuotient1(e, b, x) == FloatQuotient2(e, b, x \div b, (x % b) * Limb)

\* a / b for b <= a < 2b, times 2^e
FloatNormal(e, a, b) == FloatQuotient1(e, b, (a - b) * Limb)

FloatOfExponent(a, b, e) == FloatNormal(e, a * Pow2(0 - e), b * Pow2(e))

\* The float64 nearest to a / b, for integers a, b > 0
FloatDiv(a, b) == FloatOfExponent(a, b, FloatExponent(a, b))

\* The number of bits of t above its first, for 1 <= t < 32
FloatShift(t) ==
    IF t >= 16 THEN 4 ELSE IF t >= 8 THEN 3 ELSE IF t >= 4 THEN 2
    ELSE IF t >= 2 THEN 1 ELSE 0

\* The product t.p1 p2 p3 p4 brought back to one leading bit by dividing by
\* d = 2^FloatShift(t), then rounded
FloatProduct4(e, d, n1, n2, n3, y) ==
    FloatRounded(e, <<n1, n2, n3, y \div d>>, y % d, d)

FloatProduct3(e, d, p4, n1, n2, y) ==
    FloatProduct4(e, d, n1, n2, y \div d, (y % d) * Limb + p4)

FloatProduct2(e, d, p3, p4, n1, y) ==
    FloatProduct3(e, d, p4, n1, y \div d, (y % d) * Limb + p3)

FloatProduct1(e, d, p2, p3, p4, y) ==
    FloatProduct2(e, d, p3, p4, y \div d, (y % d) * Limb + p2)

FloatProduct(e, t, d, p1, p2, p3, p4) ==
    FloatProduct1(e, d, p2, p3, p4, (t % d) * Limb + p1)

FloatCarried(e, t, p1, p2, p3, p4) ==
    FloatProduct(e + FloatShift(t), t, Pow2(FloatShift(t)), p1, p2, p3, p4)

\* The limbs of 1.m times c, least significant first; x carries upward
FloatTimes1(e, c, p2, p3, p4, x) ==
    FloatCarried(e, c + (x \div Limb), x % Limb, p2, p3, p4)

FloatTimes2(e, m, c, p3, p4, x) ==
    FloatTimes1(e, c, x % Limb, p3, p4, m[1] * c + (x \div Limb))

FloatTimes3(e, m, c, p4, x) ==
    FloatTimes2(e, m, c, x % Limb, p4, m[2] * c + (x \div Limb))

FloatTimes4(e, m, c, x) ==
    FloatTimes3(e, m, c, x % Limb, m[3] * c + (x \div Limb))

\* The float64 nearest to f * c * 2^shift, for an integer 1 <= c < 16
FloatTimes(f, c, shift) == FloatTimes4(f.e + shift, f.m, c, f.m[4] * c)

\* -1, 0, 1 as f < g, f = g, f > g
FloatCompareFrom(f, g, i) ==
    IF f.m[i] < g.m[i] THEN 0 - 1 ELSE IF f.m[i] > g.m[i] THEN 1 ELSE 0

FloatCompare(f, g) ==
    IF f.e # g.e THEN (IF f.e < g.e THEN 0 - 1 ELSE 1)
    ELSE IF f.m[1] # g.m[1] THEN FloatCompareFrom(f, g, 1)
    ELSE IF f.m[2] # g.m[2] THEN FloatCompareFrom(f, g, 2)
    ELSE IF f.m[3] # g.m[3] THEN FloatCompareFrom(f, g, 3)
    ELSE FloatCompareFrom(f, g, 4)

(***************************************************************************)
(* Baseline (lines 94-152).                                                *)
(***************************************************************************)
expected_period_days(ptype) == IF ptype = "Weekly" THEN 7 ELSE 30

\* Mutant: the window is one day too long
recent_window_long(ptype) == IF ptype = "Weekly" THEN 7 ELSE 30

\* pd.Timedelta(days=6) / pd.Timedelta(days=29)
recent_window(ptype) == IF ptype = "Weekly" THEN 6 ELSE 29

\* medicine_sales['date'].max() - pd.Timedelta(days=6 | 29)
recent_cutoff(ptype, msales) == MaxOf(DatesOf(msales)) - recent_window(ptype)

RowsSince(msales, cutoff) == SelectSeq(msales, LAMBDA r : r.date >= cutoff)

\* medicine_sales[medicine_sales['date'] >= recent_cutoff]
recent_period_data(ptype, msales) ==
    RowsSince(msales, recent_cutoff(ptype, msales))

\* valid_periods.iloc[-1]
recent_period(valid) == valid[Len(valid)]

\* valid_periods.iloc[:-1]
baseline_periods(valid) == SubSeq(valid, 1, Len(valid) - 1)

RECURSIVE SumTotals(_)
SumTotals(ps) ==
    IF ps = <<>> THEN 0
    ELSE Head(ps).total_quantity + SumTotals(Tail(ps))

\* Mutant: the fallback is taken only without any valid period
insufficient_below_one(valid) == Len(valid) < 1

\* len(valid_periods) < 2 (line 94)
insufficient(valid) == Len(valid) < 2

\* The keys of the periods whose quantities are summed into the baseline:
\* every row of the medicine in the fallback (line 97), the rows of
\* baseline_periods otherwise (line 135)
baseline_source_of(ptype, msales, valid) ==
    IF insufficient(valid)
    THEN {period_key(ptype, r.date) : r \in Range(msales)}
    ELSE {p.period : p \in Range(baseline_periods(valid))}

baseline_source(ptype, msales) ==
    baseline_source_of(ptype, msales, valid_periods(ptype, msales))

\* (current - baseline) / baseline * 100 if baseline > 0 else 0, for
\* baseline = bnum / bden
\* The value is held exactly as num / den; err is the sign of the float
\* result where the exact value is 0 (the float is just below or just above
\* 0), and 0 where the float has the sign of the exact value.
spike_of(current, bnum, bden) ==
    IF bnum > 0
    THEN [num |-> (current * bden - bnum) * 100, den |-> bnum, err |-> 0]
    ELSE [num |-> 0, den |-> 1, err |-> 0]

\* Mutant: the day count leaves out the "+ 1"
total_days_exclusive(msales) == MaxOf(DatesOf(msales)) - MinOf(DatesOf(msales))

\* (medicine_sales['date'].max() - medicine_sales['date'].min()).days + 1
total_days(msales) == (MaxOf(DatesOf(msales)) - MinOf(DatesOf(msales))) + 1

\* expected_period_sales = daily_avg * expected_period_days, with
\* daily_avg = medicine_sales['quantity'].sum() / total_days (lines 96-105)
expected_period_sales(ptype, msales) ==
    [num |-> SumQuantity(msales) * expected_period_days(ptype),
     den |-> total_days(msales)]

\* recent_period_data['quantity'].sum() (line 114)
recent_period_sales(ptype, msales) ==
    SumQuantity(recent_period_data(ptype, msales))

\* baseline_periods['total_quantity'].mean() (line 135)
mean_total(periods) == [num |-> SumTotals(periods), den |-> Len(periods)]

baseline_avg(valid) == mean_total(baseline_periods(valid))

\* daily_avg = medicine_sales['quantity'].sum() / total_days, in float64
daily_avg_float(total, days) == FloatDiv(total, days)

\* daily_avg * expected_period_days, in float64: times 7, or times 15 * 2
expected_period_sales_float(ptype, total, days) ==
    IF ptype = "Weekly"
    THEN FloatTimes(daily_avg_float(total, days), 7, 0)
    ELSE FloatTimes(daily_avg_float(total, days), 15, 1)

\* The sign of recent_period_sales - expected_period_sales in float64 (line
\* 117) where the two are equal exactly: division by the positive baseline
\* and the factor 100 keep the sign
fallback_spike_sign(ptype, recent, total, days) ==
    IF total > 0 /\ days > 0
       /\ recent * days = total * expected_period_days(ptype)
    THEN FloatCompare(FloatDiv(recent, 1),
                      expected_period_sales_float(ptype, total, days))
    ELSE 0

fallback_spike(recent, expected, sign) ==
    [spike_of(recent, expected.num, expected.den) EXCEPT !.err = sign]

\* The analysis dict of the fallback branch (lines 119-131)
fallback_dict(name, ptype, dates, recent, expected, sign) ==
    [kind              |-> "analysis",
     medicine          |-> name,
     period_type       |-> ptype,
     \* f"Latest {period_type.lower()}"
     current_period    |-> [latest |-> ptype],
     current_sales     |-> recent,
     baseline_avg      |-> expected,
     spike_percentage  |-> fallback_spike(recent, expected, sign),
     period_start      |-> MinOf(dates),
     period_end        |-> MaxOf(dates),
     factors           |-> <<>>,
     insufficient_data |-> TRUE,
     period_count      |-> 1]

fallback_of_recent(name, ptype, msales, recent) ==
    fallback_dict(name, ptype, DatesOf(msales), recent,
                  expected_period_sales(ptype, msales),
                  fallback_spike_sign(ptype, recent, SumQuantity(msales),
                                      total_days(msales)))

fallback_analysis(name, ptype, msales) ==
    fallback_of_recent(name, ptype, msales, recent_period_sales(ptype, msales))

\* The analysis dict of the period-over-period branch (lines 133-152)
periods_dict(name, ptype, rp, avg, count) ==
    [kind              |-> "analysis",
     medicine          |-> name,
     period_type       |-> ptype,
     current_period    |-> rp.period,
     current_sales     |-> rp.total_quantity,
     baseline_avg      |-> avg,
     spike_percentage  |-> spike_of(rp.total_quantity, avg.num, avg.den),
     period_start      |-> rp.start_date,
     period_end        |-> rp.end_date,
     factors           |-> <<>>,
     insufficient_data |-> FALSE,
     period_count      |-> count]

periods_analysis(name, ptype, valid) ==
    periods_dict(name, ptype, recent_period(valid), baseline_avg(valid),
                 Len(valid))

\* The analysis dict before factor detection (lines 94-152)
analysis_of_periods(name, ptype, msales, valid) ==
    IF insufficient(valid)
    THEN fallback_analysis(name, ptype, msales)
    ELSE periods_analysis(name, ptype, valid)

base_analysis(name, ptype, msales) ==
    analysis_of_periods(name, ptype, msales, valid_periods(ptype, msales))

(***************************************************************************)
(* Factor detection (lines 154-295).  A factor dict is held as its type,   *)
(* its impact and the set of polarity keys it carries with value True; a   *)
(* key a dict lacks reads as None under .get().                            *)
(***************************************************************************)
Increases == "increases_outbreak_probability"
Reduces   == "reduces_outbreak_probability"

Factor(type, impact, flags) == [type |-> type, impact |-> impact, flags |-> flags]

\* medicine_sales['category'].iloc[0]
medicine_category_of(msales) == msales[1].category

\* campaigns_df[(start_date <= period_end) & (end_date >= period_start)
\*              & (category == medicine_category)]
active_campaigns(campaigns, category, period_start, period_end) ==
    SelectSeq(campaigns.rows,
              LAMBDA c : /\ c.start_date <= period_end
                         /\ c.end_date >= period_start
                         /\ c.category = category)

\* Mutant: half of the period already counts as high
campaign_impact_from_half(overlap_days, period_days) ==
    IF overlap_days * 100 >= 50 * period_days THEN "high" ELSE "medium"

\* Factor 1 (lines 171-185): the first active campaign
campaign_impact(overlap_days, period_days) ==
    \* overlap_days / period_days * 100 > 50
    IF overlap_days * 100 > 50 * period_days THEN "high" ELSE "medium"

campaign_overlap(campaign_start, campaign_end, period_start, period_end) ==
    <<Factor("campaign",
             campaign_impact((campaign_end - campaign_start) + 1,
                             (period_end - period_start) + 1),
             {Reduces})>>

first_campaign_factor(campaign, period_start, period_end) ==
    campaign_overlap(
        \* max(campaign['start_date'], period_start)
        IF campaign.start_date >= period_start
        THEN campaign.start_date ELSE period_start,
        \* min(campaign['end_date'], period_end)
        IF campaign.end_date <= period_end
        THEN campaign.end_date ELSE period_end,
        period_start, period_end)

active_campaign_factor(active, period_start, period_end) ==
    IF Len(active) > 0
    THEN first_campaign_factor(active[1], period_start, period_end)
    ELSE <<>>

campaign_factor(campaigns, category, period_start, period_end) ==
    active_campaign_factor(
        active_campaigns(campaigns, category, period_start, period_end),
        period_start, period_end)

\* The transaction slice of the current period (lines 188-200)
current_period_sales(ptype, msales, a) ==
    IF a.insufficient_data
    THEN RowsSince(msales, recent_cutoff(ptype, msales))
    ELSE SelectSeq(msales, LAMBDA r : /\ r.date >= a.period_start
                                      /\ r.date <= a.period_end)

\* Factor 2 (lines 203-222): share of branches with sales in the slice
geographic_spread(affected_branches, total_branches) ==
    \* spread_percentage = affected / total if total > 0 else 0
    IF total_branches > 0 /\ affected_branches * 10 >= 8 * total_branches
    THEN <<Factor("geographic_spread", "high", {Increases})>>
    ELSE IF total_branches > 0 /\ affected_branches * 10 >= 5 * total_branches
    THEN <<Factor("geographic_spread", "medium", {Increases})>>
    ELSE <<>>

geographic_factor(slice, sales) ==
    geographic_spread(Cardinality({r.branch_name : r \in Range(slice)}),
                      Cardinality({r.branch_name : r \in Range(sales)}))

\* Factor 3 (lines 225-244): share of age groups with sales in the slice
demographic_spread(age_groups, total_age_groups) ==
    \* demo_percentage = age_groups / total if total > 0 else 0
    IF total_age_groups > 0 /\ age_groups * 10 >= 9 * total_age_groups
    THEN <<Factor("demographics", "high", {Increases})>>
    ELSE IF total_age_groups > 0 /\ age_groups * 10 >= 7 * total_age_groups
    THEN <<Factor("demographics", "medium", {Increases})>>
    ELSE <<>>

demographics_factor(slice, sales) ==
    demographic_spread(Cardinality({r.age_group : r \in Range(slice)}),
                       Cardinality({r.age_group : r \in Range(sales)}))

\* current_period_sales.groupby('date')['quantity'].sum(), as a function
daily_sales(slice) ==
    [d \in DatesOf(slice) |-> SumQuantity(SelectSeq(slice, LAMBDA r : r.date = d))]

\* Mutant: a day counts as high when it is above the mean
high_days_above_mean(daily, n, total) ==
    Cardinality({d \in DOMAIN daily : daily[d] * n > total})

\* Factor 4 (lines 247-258): Weekly only
\* sum(daily_sales > daily_sales.mean() * 1.5), the mean being total / n
high_days(daily, n, total) ==
    Cardinality({d \in DOMAIN daily : daily[d] * n * 2 > total * 3})

sustained_pattern(n, high) ==
    \* len(daily_sales) >= 3 and high_days >= len(daily_sales) * 0.6
    IF n >= 3 /\ high * 10 >= n * 6
    THEN <<Factor("sustained_pattern", "high", {Increases})>>
    ELSE <<>>

sustained_of_daily(daily, n, total) ==
    sustained_pattern(n, high_days(daily, n, total))

sustained_of_days(daily, total) ==
    sustained_of_daily(daily, Cardinality(DOMAIN daily), total)

\* Mutant: the check runs for every period type
sustained_factor_any_period(ptype, slice) ==
    sustained_of_days(daily_sales(slice), SumQuantity(slice))

sustained_factor(ptype, slice) ==
    IF ptype = "Weekly"
    THEN sustained_of_days(daily_sales(slice), SumQuantity(slice))
    ELSE <<>>

\* Factor 5 (lines 261-273): purchase events by branch, date and hour
\* groupby(['branch_name', 'date', 'hour']): the purchase events
customer_purchases(slice) ==
    {<<r.branch_name, r.date, r.hour>> : r \in Range(slice)}

\* 'category': 'nunique' of one event
categories_of(slice, e) ==
    Cardinality({r.category : r \in
        {x \in Range(slice) : <<x.branch_name, x.date, x.hour>> = e}})

\* customer_purchases[customer_purchases['category'] > 1]
multi_category_purchases(slice, events) ==
    {e \in events : categories_of(slice, e) > 1}

\* Mutant: the factor needs more than half of the events
cross_category_above_half(multi, events) ==
    IF Cardinality(multi) * 10 > Cardinality(events) * 5
    THEN <<Factor("cross_category", "medium", {Increases})>>
    ELSE <<>>

cross_category(multi, events) ==
    \* len(multi_category_purchases) > len(customer_purchases) * 0.3
    IF Cardinality(multi) * 10 > Cardinality(events) * 3
    THEN <<Factor("cross_category", "medium", {Increases})>>
    ELSE <<>>

cross_category_of(slice, events) ==
    cross_category(multi_category_purchases(slice, events), events)

cross_category_factor(slice) ==
    cross_category_of(slice, customer_purchases(slice))

flu_season_months == {10, 11, 12, 1, 2, 3}
allergy_season_months == {3, 4, 5, 9, 10}

\* "allergy" in medicine_category.lower(), over the categories of the model
ContainsAllergy(category) == category \in {"Allergy Relief"}

\* Mutant: the seasonal factor carries both polarity keys
seasonal_of_month_both(category, current_month) ==
    IF category = "Cold & Flu" /\ current_month \in {10, 11, 12, 1, 2, 3}
    THEN <<Factor("seasonal_expected", "medium", {Increases, Reduces})>>
    ELSE <<>>

\* Factor 6 (lines 276-295)
seasonal_of_month(category, current_month) ==
    IF category = "Cold & Flu" /\ current_month \in flu_season_months
    THEN <<Factor("seasonal_expected", "medium", {Reduces})>>
    ELSE IF ContainsAllergy(category) /\ current_month \in allergy_season_months
    THEN <<Factor("seasonal_expected", "medium", {Reduces})>>
    ELSE <<>>

seasonal_factor(category, period_start) ==
    seasonal_of_month(category, MonthOf(period_start))

\* The columns content of a loaded campaigns.csv
CampaignColumns ==
    {"campaign_name", "start_date", "end_date", "category", "discount_pct"}

\* Mutant: the seasonal check runs first
detect_factors_seasonal_first(a, ptype, category, slice, sales, campaigns) ==
    [a EXCEPT !.factors =
        seasonal_factor(category, a.period_start)
        \o campaign_factor(campaigns, category, a.period_start, a.period_end)
        \o geographic_factor(slice, sales)
        \o demographics_factor(slice, sales)
        \o sustained_factor(ptype, slice)
        \o cross_category_factor(slice)]

\* The six checks in order, each appending at most one factor
detect_factors(a, ptype, category, slice, sales, campaigns) ==
    [a EXCEPT !.factors =
        campaign_factor(campaigns, category, a.period_start, a.period_end)
        \o geographic_factor(slice, sales)
        \o demographics_factor(slice, sales)
        \o sustained_factor(ptype, slice)
        \o cross_category_factor(slice)
        \o seasonal_factor(category, a.period_start)]

analysis_with_factors(a, ptype, msales, sales, campaigns) ==
    detect_factors(a, ptype, medicine_category_of(msales),
                   current_period_sales(ptype, msales, a), sales, campaigns)

analyze_medicine(name, ptype, msales, sales, campaigns) ==
    IF Len(msales) = 0 THEN None
    \* campaigns_df['start_date'] on a table without that column
    ELSE IF ~({"start_date", "end_date", "category"} \subseteq campaigns.columns)
    THEN KeyError
    ELSE analysis_with_factors(base_analysis(name, ptype, msales),
                               ptype, msales, sales, campaigns)

\* analyze_sales_spike_factors(medicine_name, period_type, sales_df, campaigns_df)
analyze_sales_spike_factors(name, ptype, sales, campaigns) ==
    analyze_medicine(name, ptype, medicine_sales_of(name, sales), sales, campaigns)

(***************************************************************************)
(* Confidence scoring (calculate_outbreak_confidence, lines 299-408).      *)
(* Scores are in half points: Half units make one point.                   *)
(***************************************************************************)
Half == 2

\* spike_pct < bound and abs(spike_pct) > bound, for spike_pct = num / den
SpikeLess(spike, bound) ==
    \/ spike.num < bound * spike.den
    \/ (spike.num = bound * spike.den /\ spike.err < 0)
AbsSpikeMore(spike, bound) ==
    \/ (IF spike.num < 0 THEN 0 - spike.num ELSE spike.num) > bound * spike.den
    \/ /\ spike.num # 0
       /\ (IF spike.num < 0 THEN 0 - spike.num ELSE spike.num)
              = bound * spike.den
       /\ (IF spike.num < 0 THEN 0 - spike.err ELSE spike.err) > 0

\* Mutant: the two tiers below 200% are exchanged
base_confidence_dipping(spike) ==
    IF SpikeLess(spike, 0)
    THEN IF AbsSpikeMore(spike, 50) THEN 1
         ELSE IF AbsSpikeMore(spike, 30) THEN 2
         ELSE IF AbsSpikeMore(spike, 15) THEN 4
         ELSE IF AbsSpikeMore(spike, 5) THEN 7
         ELSE 10
    ELSE IF SpikeLess(spike, 15) THEN 5
         ELSE IF SpikeLess(spike, 30) THEN 10
         ELSE IF SpikeLess(spike, 60) THEN 20
         ELSE IF SpikeLess(spike, 100) THEN 55
         ELSE IF SpikeLess(spike, 200) THEN 35
         ELSE 75

\* Lines 308-335: the score of the spike tier, in points
base_confidence(spike) ==
    IF SpikeLess(spike, 0)
    THEN IF AbsSpikeMore(spike, 50) THEN 1
         ELSE IF AbsSpikeMore(spike, 30) THEN 2
         ELSE IF AbsSpikeMore(spike, 15) THEN 4
         ELSE IF AbsSpikeMore(spike, 5) THEN 7
         ELSE 10
    ELSE IF SpikeLess(spike, 15) THEN 5
         ELSE IF SpikeLess(spike, 30) THEN 10
         ELSE IF SpikeLess(spike, 60) THEN 20
         ELSE IF SpikeLess(spike, 100) THEN 35
         ELSE IF SpikeLess(spike, 200) THEN 55
         ELSE 75

\* [f for f in factors if f.get('reduces_outbreak_probability')]
reducing_factors(a) == SelectSeq(a.factors, LAMBDA f : Reduces \in f.flags)

\* [f for f in factors if f.get('increases_outbreak_probability')]
increasing_factors(a) == SelectSeq(a.factors, LAMBDA f : Increases \in f.flags)

\* Mutant: a high reducing factor subtracts what a high increasing one adds
reducing_step_symmetric(f, negative) ==
    IF negative
    THEN (IF f.impact = "high" THEN 2 * Half
          ELSE IF f.impact = "medium" THEN 1 * Half ELSE 1)
    ELSE (IF f.impact = "high" THEN 12 * Half
          ELSE IF f.impact = "medium" THEN 8 * Half ELSE 4 * Half)

\* Lines 344-350 and 361-367: what one reducing factor subtracts, half points
reducing_step(f, negative) ==
    IF negative
    THEN (IF f.impact = "high" THEN 2 * Half
          ELSE IF f.impact = "medium" THEN 1 * Half ELSE 1)
    ELSE (IF f.impact = "high" THEN 15 * Half
          ELSE IF f.impact = "medium" THEN 8 * Half ELSE 4 * Half)

\* Lines 352-358 and 369-375: what one increasing factor adds, half points
increasing_step(f, negative) ==
    IF negative
    THEN (IF f.impact = "high" THEN 2 * Half
          ELSE IF f.impact = "medium" THEN 1 * Half ELSE 1)
    ELSE (IF f.impact = "high" THEN 12 * Half
          ELSE IF f.impact = "medium" THEN 6 * Half ELSE 3 * Half)

RECURSIVE reducing_total(_, _)
reducing_total(fs, negative) ==
    IF fs = <<>> THEN 0
    ELSE reducing_step(Head(fs), negative) + reducing_total(Tail(fs), negative)

RECURSIVE increasing_total(_, _)
increasing_total(fs, negative) ==
    IF fs = <<>> THEN 0
    ELSE increasing_step(Head(fs), negative) + increasing_total(Tail(fs), negative)

\* Lines 341-375: the score after the factor adjustments, half points
adjusted_confidence(a) ==
    LET negative == SpikeLess(a.spike_percentage, 0)
    IN  base_confidence(a.spike_percentage) * Half
        - reducing_total(reducing_factors(a), negative)
        + increasing_total(increasing_factors(a), negative)

\* Mutant: one ceiling for every decrease
max_risk_flat(spike) == 15

\* Lines 380-385: the ceiling of a decreasing spike, in points
max_risk(spike) ==
    IF AbsSpikeMore(spike, 50) THEN 5
    ELSE IF AbsSpikeMore(spike, 20) THEN 10
    ELSE 15

Min(x, y) == IF x <= y THEN x ELSE y
Max(x, y) == IF x >= y THEN x ELSE y

\* Lines 378-387: confidence = min(confidence, max_risk) when spike_pct < 0
capped_confidence(a) ==
    IF SpikeLess(a.spike_percentage, 0)
    THEN Min(adjusted_confidence(a), max_risk(a.spike_percentage) * Half)
    ELSE adjusted_confidence(a)

\* Mutant: the upper clamp is forgotten
final_clamp_no_ceiling(c) == IF c >= 0 THEN c ELSE 0

\* max(0, min(100, confidence))
final_clamp(c) == Max(0, Min(100 * Half, c))

\* Lines 390-406: the debug_info entry
debug_info(a) ==
    LET spike    == a.spike_percentage
        negative == SpikeLess(spike, 0)
    IN  [spike_percentage       |-> spike,
         spike_direction        |-> IF negative THEN "Decreasing" ELSE "Increasing",
         base_risk_from_spike   |-> capped_confidence(a),
         reducing_factors_count |-> Len(reducing_factors(a)),
         increasing_factors_count |-> Len(increasing_factors(a)),
         factor_adjustments     |->
             [reducing_total   |-> 0 - reducing_total(reducing_factors(a), negative),
              increasing_total |-> increasing_total(increasing_factors(a), negative)],
         final_confidence       |-> final_clamp(capped_confidence(a)),
         current_sales          |-> a.current_sales,
         baseline_avg           |-> a.baseline_avg,
         calculation_method     |-> IF a.insufficient_data THEN "insufficient_data"
                                    ELSE "sufficient_periods",
         decreasing_sales_cap_applied |-> negative,
         max_risk_cap           |-> IF SpikeLess(spike, 0 - 50) THEN 5
                                    ELSE IF SpikeLess(spike, 0 - 20) THEN 10
                                    ELSE IF negative THEN 15 ELSE 100]

\* Mutant: the call also regroups the factor list, reducing factors first
scored_analysis_regrouping(a) ==
    IF a = None THEN a
    ELSE [k \in DOMAIN a \cup {"debug_info"} |->
             IF k = "debug_info" THEN debug_info(a)
             ELSE IF k = "factors"
                  THEN reducing_factors(a) \o increasing_factors(a)
                  ELSE a[k]]

\* The analysis after the call: analysis_result['debug_info'] = {...}
scored_analysis(a) ==
    IF a = None THEN a
    ELSE [k \in DOMAIN a \cup {"debug_info"} |->
             IF k = "debug_info" THEN debug_info(a) ELSE a[k]]

\* Mutant: a second call returns the value the first call stored, which is
\* the value before the final clamp
calculate_outbreak_confidence_cached(a) ==
    IF a = None THEN 0
    ELSE IF "debug_info" \in DOMAIN a THEN a.debug_info.base_risk_from_spike
    ELSE final_clamp(capped_confidence(a))

\* calculate_outbreak_confidence(analysis_result): the value returned,
\* half points
calculate_outbreak_confidence(a) ==
    IF a = None THEN 0
    ELSE final_clamp(capped_confidence(a))

(***************************************************************************)
(* Inputs of the bounded model.                                            *)
(***************************************************************************)
\* A sales.csv row with the columns the analysis reads
SalesRow(name, category, branch, date, hour, age, quantity) ==
    [medicine_name |-> name, category |-> category, branch_name |-> branch,
     date |-> date, hour |-> hour, age_group |-> age, quantity |-> quantity]

\* pd.DataFrame(): the table render_disease_prediction substitutes when
\* data/campaigns.csv cannot be read (lines 417-421); it has no columns
EmptyFrame == [columns |-> {}, rows |-> <<>>]

Campaign(name, category, start, end, discount) ==
    [campaign_name |-> name, category |-> category, start_date |-> start,
     end_date |-> end, discount_pct |-> discount]

LoadedCampaigns(rows) == [columns |-> CampaignColumns, rows |-> rows]

\* Sale dates around the turn of the year 2024/2025, in date order.
\* Weekly: 2024-01-01 (Mon) .. 2025-01-02 (Thu); 2024-12-30 is a Monday.
WeeklyDates ==
    <<DaysFromCivil(2024, 1, 1),   DaysFromCivil(2024, 12, 16),
      DaysFromCivil(2024, 12, 20), DaysFromCivil(2024, 12, 23),
      DaysFromCivil(2024, 12, 27), DaysFromCivil(2024, 12, 30),
      DaysFromCivil(2024, 12, 31), DaysFromCivil(2025, 1, 1),
      DaysFromCivil(2025, 1, 2)>>

MonthlyDates ==
    <<DaysFromCivil(2024, 10, 30), DaysFromCivil(2024, 11, 4),
      DaysFromCivil(2024, 11, 29), DaysFromCivil(2024, 12, 2),
      DaysFromCivil(2024, 12, 27), DaysFromCivil(2025, 1, 3)>>

QtyPool == {1, 7}

\* Tables with at most k rows, one row per sale date, in date order, taken
\* from dates[i..]
RECURSIVE DailyTables(_, _, _)
DailyTables(dates, i, k) ==
    IF i > Len(dates) \/ k = 0 THEN {<<>>}
    ELSE DailyTables(dates, i + 1, k)
         \cup {<<SalesRow("Paracetamol 500mg", "Cold & Flu", "Guardian Bedok",
                          dates[i], 9, "26-35", q)>> \o t :
                  q \in QtyPool, t \in DailyTables(dates, i + 1, k - 1)}

\* The campaigns of the generated campaigns.csv, placed at the year's end
HistoricCampaigns ==
    LoadedCampaigns(
        <<Campaign("Flu Season Prep", "Cold & Flu",
                   DaysFromCivil(2024, 12, 20), DaysFromCivil(2024, 12, 27), 15),
          Campaign("Chronic Care Month", "Chronic",
                   DaysFromCivil(2024, 12, 1), DaysFromCivil(2024, 12, 31), 10)>>)

Unset == 0 - 1

\* The caller's inputs before the call (render_disease_prediction, 446-448)
Init ==
    /\ period_type \in {"Weekly", "Monthly"}
    /\ medicine_name \in {"Paracetamol 500mg", "Nonexistent Medicine"}
    /\ sales_df \in DailyTables(IF period_type = "Weekly" THEN WeeklyDates
                                ELSE MonthlyDates, 1, MaxSales)
    /\ campaigns_df = HistoricCampaigns
    /\ analysis = None
    /\ confidence = Unset
    /\ pc = "start"

(***************************************************************************)
(* Actions.                                                                *)
(***************************************************************************)
\* Mutant: the period_key column is assigned to the caller's table instead
\* of a copy
sales_df_assigned_in_place(name, ptype, sales) ==
    [i \in DOMAIN sales |->
        IF sales[i].medicine_name = name
        THEN [k \in DOMAIN sales[i] \cup {"period_key"} |->
                 IF k = "period_key" THEN period_key(ptype, sales[i].date)
                 ELSE sales[i][k]]
        ELSE sales[i]]

\* The caller's sales table after the call.  Line 49 copies sales_df and
\* line 55 copies the selection, so the assignments of lines 52 and 62-67
\* reach the copies only.
sales_df_after_call(name, ptype, sales) == sales

\* The caller's campaign table after the call: lines 163-167 and 172-176
\* only read it
campaigns_df_after_call(campaigns) == campaigns

\* analysis = analyze_sales_spike_factors(...); "if analysis:" (446-450)
Analyze ==
    /\ pc = "start"
    /\ analysis' = analyze_sales_spike_factors(medicine_name, period_type,
                                               sales_df, campaigns_df)
    /\ pc' = IF analysis' = None THEN "no_data"
             ELSE IF analysis' = KeyError THEN "raised"
             ELSE "analyzed"
    /\ sales_df' = sales_df_after_call(medicine_name, period_type, sales_df)
    /\ campaigns_df' = campaigns_df_after_call(campaigns_df)
    /\ UNCHANGED <<medicine_name, period_type, confidence>>

\* confidence = calculate_outbreak_confidence(analysis) (452)
Score ==
    /\ pc = "analyzed"
    /\ confidence' = calculate_outbreak_confidence(analysis)
    /\ analysis' = scored_analysis(analysis)
    /\ pc' = "scored"
    /\ UNCHANGED <<medicine_name, period_type, sales_df, campaigns_df>>

\* calculate_outbreak_confidence applied once more to the analysis it has
\* scored, which now carries debug_info
Rescore ==
    /\ pc = "scored"
    /\ confidence' = calculate_outbreak_confidence(analysis)
    /\ analysis' = scored_analysis(analysis)
    /\ pc' = "rescored"
    /\ UNCHANGED <<medicine_name, period_type, sales_df, campaigns_df>>

\* The later calls of render_disease_prediction with the same arguments
\* (lines 553, 593, 611, 673): a fresh analysis
Reanalyze ==
    /\ pc = "scored"
    /\ analysis' = analyze_sales_spike_factors(medicine_name, period_type,
                                               sales_df, campaigns_df)
    /\ pc' = "reanalyzed"
    /\ sales_df' = sales_df_after_call(medicine_name, period_type, sales_df)
    /\ campaigns_df' = campaigns_df_after_call(campaigns_df)
    /\ UNCHANGED <<medicine_name, period_type, confidence>>

Next == Analyze \/ Score \/ Rescore \/ Reanalyze

Spec == Init /\ [][Next]_vars

(***************************************************************************)
(* Scoring any analysis: the analysis is drawn directly, with any spike    *)
(* percentage of SpikePool and any list of at most MaxFactors factors of   *)
(* any impact tier and any polarity keys.                                  *)
(***************************************************************************)
Impacts == {"high", "medium", "low"}

FactorPool == {Factor("campaign", i, fl) : i \in Impacts,
                                           fl \in SUBSET {Increases, Reduces}}

RECURSIVE FactorLists(_)
FactorLists(k) ==
    IF k = 0 THEN {<<>>}
    ELSE FactorLists(k - 1)
         \cup {<<f>> \o fs : f \in FactorPool,
                             fs \in {x \in FactorLists(k - 1) : Len(x) = k - 1}}

\* Spike percentages on, next to and between the tier boundaries
SpikePool ==
    {[num |-> n, den |-> 1, err |-> 0] :
        n \in {0 - 100, 0 - 51, 0 - 50, 0 - 31, 0 - 30, 0 - 21, 0 - 20, 0 - 16,
               0 - 15, 0 - 6, 0 - 5, 0 - 1, 0, 14, 15, 29, 30, 59, 60, 99, 100,
               150, 199, 200, 600}}
    \cup {[num |-> 0 - 101, den |-> 2, err |-> 0],
          [num |-> 0 - 41, den |-> 2, err |-> 0]}
    \* 0 missed by a rounding error, from below and from above
    \cup {[num |-> 0, den |-> 1, err |-> 0 - 1], [num |-> 0, den |-> 1, err |-> 1]}

AnyAnalysis(spike, factors) ==
    [kind              |-> "analysis",
     medicine          |-> "Paracetamol 500mg",
     period_type       |-> "Weekly",
     current_period    |-> [latest |-> "Weekly"],
     current_sales     |-> 7,
     baseline_avg      |-> [num |-> 7, den |-> 1],
     spike_percentage  |-> spike,
     period_start      |-> DaysFromCivil(2024, 12, 23),
     period_end        |-> DaysFromCivil(2024, 12, 29),
     factors           |-> factors,
     insufficient_data |-> TRUE,
     period_count      |-> 1]

InitScore ==
    /\ period_type = "Weekly"
    /\ medicine_name = "Paracetamol 500mg"
    /\ sales_df = <<>>
    /\ campaigns_df = EmptyFrame
    /\ \E sp \in SpikePool, fs \in FactorLists(MaxFactors) :
          analysis = AnyAnalysis(sp, fs)
    /\ confidence = Unset
    /\ pc = "analyzed"

SpecScore == InitScore /\ [][Score]_vars

(***************************************************************************)
(* Inputs that vary what the factor checks read: the medicine, category,   *)
(* branch, hour and age group of each row, and the campaign table, which   *)
(* may be the column-less frame of a failed load.                          *)
(***************************************************************************)
FactorRowPool ==
    {SalesRow("Paracetamol 500mg", "Cold & Flu", "Guardian Bedok",
              DaysFromCivil(2024, 10, 28), 9, "26-35", 1),
     SalesRow("Paracetamol 500mg", "Allergy Relief", "Guardian Bedok",
              DaysFromCivil(2024, 10, 28), 9, "26-35", 1),
     SalesRow("Paracetamol 500mg", "Cold & Flu", "Guardian Jurong",
              DaysFromCivil(2024, 11, 1), 10, "46-60", 7),
     SalesRow("Paracetamol 500mg", "Chronic", "Guardian Bedok",
              DaysFromCivil(2024, 11, 1), 9, "26-35", 1),
     SalesRow("Ibuprofen 400mg", "Pain Relief", "Guardian Tampines",
              DaysFromCivil(2024, 10, 28), 9, "60+", 1),
     SalesRow("Ibuprofen 400mg", "Pain Relief", "Guardian Orchard",
              DaysFromCivil(2024, 11, 1), 9, "18-25", 1),
     SalesRow("Ibuprofen 400mg", "Pain Relief", "Guardian Bedok",
              DaysFromCivil(2024, 10, 28), 9, "26-35", 1)}

RECURSIVE RowTables(_)
RowTables(k) ==
    IF k = 0 THEN {<<>>}
    ELSE RowTables(k - 1)
         \cup {<<r>> \o t : r \in FactorRowPool,
                            t \in {x \in RowTables(k - 1) : Len(x) = k - 1}}

FluWeek == Campaign("Flu Season Prep", "Cold & Flu",
                    DaysFromCivil(2024, 10, 25), DaysFromCivil(2024, 11, 1), 15)
FluDay == Campaign("Flu Flash Sale", "Cold & Flu",
                   DaysFromCivil(2024, 11, 1), DaysFromCivil(2024, 11, 1), 20)

CampaignTables ==
    {EmptyFrame, LoadedCampaigns(<<>>), LoadedCampaigns(<<FluWeek>>),
     LoadedCampaigns(<<FluDay, FluWeek>>)}

InitFactors ==
    /\ period_type \in {"Weekly", "Monthly"}
    /\ medicine_name \in {"Paracetamol 500mg", "Nonexistent Medicine"}
    /\ sales_df \in RowTables(MaxRows)
    /\ campaigns_df \in CampaignTables
    /\ analysis = None
    /\ confidence = Unset
    /\ pc = "start"

SpecFactors == InitFactors /\ [][Next]_vars

\* Both families of inputs
SpecAll == (Init \/ InitFactors) /\ [][Next]_vars

(***************************************************************************)
(* One week of daily sales: any set of the days Monday 2024-12-16 to       *)
(* Sunday 2024-12-22, each with one record of any quantity of DayQtyPool.  *)
(***************************************************************************)
DayQtyPool == {1, 3, 7}

WeekOfSales == [i \in 1 .. 7 |-> DaysFromCivil(2024, 12, 16) + (i - 1)]

RECURSIVE WeekTables(_)
WeekTables(i) ==
    IF i > Len(WeekOfSales) THEN {<<>>}
    ELSE WeekTables(i + 1)
         \cup {<<SalesRow("Paracetamol 500mg", "Cold & Flu", "Guardian Bedok",
                          WeekOfSales[i], 9, "26-35", q)>> \o t :
                  q \in DayQtyPool, t \in WeekTables(i + 1)}

InitWeek ==
    /\ period_type \in {"Weekly", "Monthly"}
    /\ medicine_name = "Paracetamol 500mg"
    /\ sales_df \in WeekTables(1)
    /\ campaigns_df = HistoricCampaigns
    /\ analysis = None
    /\ confidence = Unset
    /\ pc = "start"

SpecWeek == InitWeek /\ [][Next]_vars

(***************************************************************************)
(* What the properties below speak of, computed from the inputs alone.     *)
(***************************************************************************)
Returned == pc \in {"analyzed", "scored"} /\ analysis.kind = "analysis"

\* The rows of the requested medicine, by position in the sales table
MedRows == {i \in DOMAIN sales_df : sales_df[i].medicine_name = medicine_name}

RECURSIVE QtySum(_)
QtySum(I) ==
    IF I = {} THEN 0
    ELSE LET i == CHOOSE x \in I : TRUE
         IN  sales_df[i].quantity + QtySum(I \ {i})

RowDates(I) == {sales_df[i].date : i \in I}

\* The buckets of the aggregation and what each holds
Buckets == {period_key(period_type, sales_df[i].date) : i \in MedRows}
BucketRows(k) == {i \in MedRows : period_key(period_type, sales_df[i].date) = k}
BucketStart(k) == MinOf(RowDates(BucketRows(k)))
BucketEnd(k) == MaxOf(RowDates(BucketRows(k)))
SpanDays(k) == BucketEnd(k) - BucketStart(k) + 1
Threshold == IF period_type = "Weekly" THEN 5 ELSE 20
Nominal == IF period_type = "Weekly" THEN 7 ELSE 30
ValidKeys == {k \in Buckets : SpanDays(k) >= Threshold}
HistoryDays == MaxOf(RowDates(MedRows)) - MinOf(RowDates(MedRows)) + 1

\* spike_percentage = num / den compared with a whole percentage
SpikeAtMost(bound) ==
    \/ analysis.spike_percentage.num < bound * analysis.spike_percentage.den
    \/ /\ analysis.spike_percentage.num = bound * analysis.spike_percentage.den
       /\ analysis.spike_percentage.err <= 0
SpikeBelow(bound) ==
    \/ analysis.spike_percentage.num < bound * analysis.spike_percentage.den
    \/ /\ analysis.spike_percentage.num = bound * analysis.spike_percentage.den
       /\ analysis.spike_percentage.err < 0

(***************************************************************************)
(* Properties.                                                             *)
(***************************************************************************)
\* C1: the confidence returned by calculate_outbreak_confidence lies in
\* [0, 100], whatever the spike percentage and the factor list.
C1_ConfidenceInRange ==
    pc = "scored" => confidence >= 0 /\ confidence <= 100 * Half

\* C1 witness: a score above 100 before the final clamp is returned as 100.
C1_ClampedAtHundred ==
    /\ pc = "scored"
    /\ analysis.kind = "analysis"
    /\ analysis.debug_info.base_risk_from_spike > 100 * Half
    /\ confidence = 100 * Half

\* C2: with a negative spike the confidence never exceeds 5 when the spike is
\* below -50, 10 when it is below -20, and 15 for any other negative spike,
\* whatever factors the analysis carries.
C2_NegativeSpikeCeiling ==
    (pc = "scored" /\ analysis.kind = "analysis" /\ SpikeBelow(0)) =>
        confidence <= Half * (IF SpikeBelow(0 - 50) THEN 5
                              ELSE IF SpikeBelow(0 - 20) THEN 10 ELSE 15)

\* C2 witness: a spike below -50 with three high increasing factors, whose
\* adjusted score of 7 is returned as 5.
C2_CeilingApplied ==
    /\ pc = "scored"
    /\ analysis.kind = "analysis"
    /\ SpikeBelow(0 - 50)
    /\ Len(analysis.factors) = 3
    /\ \A i \in 1..3 : /\ analysis.factors[i].impact = "high"
                       /\ analysis.factors[i].flags = {Increases}
    /\ confidence = 5 * Half

\* C3 (as claimed): the spike_percentage of every returned analysis lies in
\* [-500, 500].
C3_SpikeClamped ==
    Returned => SpikeAtMost(500) /\ ~SpikeBelow(0 - 500)

\* C4 (as claimed): the call returns None exactly when no sales row has the
\* requested medicine name, and an analysis whenever a row has it.
C4_NullIffNoMatch ==
    pc # "start" =>
        /\ (MedRows = {}) => analysis = None
        /\ (MedRows # {}) => analysis.kind = "analysis"

\* C5 (as claimed): a period whose span_days is below the threshold of the
\* period type is never the current period and never among the periods
\* whose quantities make the baseline average.
C5_ShortPeriodNeverUsed ==
    Returned =>
        \A k \in Buckets :
            SpanDays(k) < Threshold =>
                /\ analysis.current_period # k
                /\ k \notin baseline_source(period_type,
                                medicine_sales_of(medicine_name, sales_df))

\* C5 (amended): with two or more valid periods, a period whose span_days is
\* below the threshold is never the current period and never among the
\* periods whose quantities make the baseline average, and the baseline sum
\* is the sum over the valid periods other than the current one.
C5_ShortPeriodNeverUsedWhenSufficient ==
    (Returned /\ ~analysis.insufficient_data) =>
        /\ \A k \in Buckets :
              SpanDays(k) < Threshold =>
                /\ analysis.current_period # k
                /\ k \notin baseline_source(period_type,
                                medicine_sales_of(medicine_name, sales_df))
        /\ analysis.current_period \in ValidKeys
        /\ analysis.baseline_avg.num =
              QtySum(UNION {BucketRows(k) :
                               k \in ValidKeys \ {analysis.current_period}})

\* C5 witness: an analysis over two or more valid periods of a history that
\* also holds a period below the threshold.
C5_ShortPeriodSkipped ==
    /\ Returned
    /\ ~analysis.insufficient_data
    /\ \E k \in Buckets : SpanDays(k) < Threshold

\* C6: with fewer than 2 valid periods insufficient_data is true and
\* baseline_avg is the whole-history quantity per calendar day times the
\* nominal period length; with 2 or more valid periods it is false.
C6_FallbackTrigger ==
    Returned =>
        /\ Cardinality(ValidKeys) < 2 =>
              /\ analysis.insufficient_data
              /\ analysis.baseline_avg.num * HistoryDays
                    = QtySum(MedRows) * Nominal * analysis.baseline_avg.den
        /\ Cardinality(ValidKeys) >= 2 => ~analysis.insufficient_data

\* C6 witness: a history of more days than one period with exactly one valid
\* period, analysed in the fallback mode.
C6_OneValidPeriod ==
    /\ Returned
    /\ Cardinality(ValidKeys) = 1
    /\ HistoryDays > Nominal
    /\ analysis.insufficient_data

\* C7: in insufficient-data mode current_sales is the quantity sold in the
\* trailing window of nominal length that ends at the latest record.
C7_TrailingWindowSales ==
    (Returned /\ analysis.insufficient_data) =>
        analysis.current_sales =
            QtySum({i \in MedRows :
                      sales_df[i].date >= MaxOf(RowDates(MedRows)) - (Nominal - 1)})

\* C7 witness: a fallback analysis whose current_sales is less than the
\* quantity of the whole history.
C7_WindowSmallerThanHistory ==
    /\ Returned
    /\ analysis.insufficient_data
    /\ analysis.current_sales < QtySum(MedRows)

\* C8 (as claimed): with 2 or more valid periods the current period is the
\* latest valid period, baseline_avg is the mean of the totals of the other
\* valid periods, and each of those ends before the current period starts.
C8_BaselineBeforeCurrent ==
    (Returned /\ ~analysis.insufficient_data) =>
        LET cur == CHOOSE k \in ValidKeys :
                       \A j \in ValidKeys : BucketStart(j) <= BucketStart(k)
            others == ValidKeys \ {cur}
        IN  /\ analysis.current_period = cur
            /\ analysis.current_sales = QtySum(BucketRows(cur))
            /\ analysis.baseline_avg.num = QtySum(UNION {BucketRows(k) : k \in others})
            /\ analysis.baseline_avg.den = Cardinality(others)
            /\ \A k \in others : BucketEnd(k) < BucketStart(cur)

\* C9 (as claimed): the periods of the aggregation are pairwise
\* non-overlapping and ascending by start date, and every Weekly period
\* holds records of exactly one ISO week, so it spans at most 7 days.
C9_PeriodsDisjointOneIsoWeek ==
    Returned =>
        LET ps == period_sales(period_type,
                               medicine_sales_of(medicine_name, sales_df))
        IN  /\ \A i, j \in DOMAIN ps : i < j => ps[i].end_date < ps[j].start_date
            /\ period_type = "Weekly" =>
                  \A k \in Buckets :
                     /\ Cardinality({<<IsoYearOf(sales_df[i].date),
                                       IsoWeekOf(sales_df[i].date)>> :
                                        i \in BucketRows(k)}) = 1
                     /\ SpanDays(k) <= 7

\* C10: every factor of a returned analysis carries exactly one of the two
\* polarity keys.
C10_OnePolarity ==
    Returned =>
        \A i \in DOMAIN analysis.factors :
            (Increases \in analysis.factors[i].flags)
                # (Reduces \in analysis.factors[i].flags)

\* C10 witness: an analysis with five factors, reducing and increasing ones
\* among them.
C10_BothPolarities ==
    /\ Returned
    /\ Len(analysis.factors) >= 5
    /\ \E i \in DOMAIN analysis.factors : analysis.factors[i].flags = {Reduces}
    /\ \E i \in DOMAIN analysis.factors : analysis.factors[i].flags = {Increases}

\* spike percentages a and b, each num / den: a > b
SpikeMore(a, b) ==
    \/ a.num * b.den > b.num * a.den
    \/ (a.num * b.den = b.num * a.den /\ a.err > b.err)

\* C11: the base score of the spike alone is monotonic.  Of two
\* non-negative spikes the larger one has a base score at least as high;
\* of two negative spikes the one with the larger decrease has a base score
\* at most as high.  The scored analysis is compared with every spike of
\* SpikePool.
C11_BaseScoreMonotonic ==
    pc = "scored" =>
        \A sp \in SpikePool :
            /\ (~SpikeLess(sp, 0) /\ SpikeMore(analysis.spike_percentage, sp))
                  => base_confidence(analysis.spike_percentage)
                         >= base_confidence(sp)
            /\ (SpikeBelow(0) /\ SpikeLess(sp, 0)
                    /\ SpikeMore(sp, analysis.spike_percentage))
                  => base_confidence(analysis.spike_percentage)
                         <= base_confidence(sp)

\* C11 witness: a spike of 100% without factors is scored 55, the base of
\* its tier, above the 35 of the tier below.
C11_HigherTierScored ==
    /\ pc = "scored"
    /\ analysis.factors = <<>>
    /\ analysis.spike_percentage = [num |-> 100, den |-> 1, err |-> 0]
    /\ confidence = 55 * Half
    /\ base_confidence([num |-> 99, den |-> 1, err |-> 0]) = 35

\* C12: with the same factor list, an analysis with a negative spike never
\* scores above an analysis with a non-negative spike.
C12_DecreaseNeverAboveIncrease ==
    (pc = "scored" /\ SpikeBelow(0)) =>
        \A sp \in SpikePool :
            ~SpikeLess(sp, 0) =>
                confidence <= calculate_outbreak_confidence(
                                  AnyAnalysis(sp, analysis.factors))

C14_BreakdownAuditTrail ==
    pc = "scored" =>
        LET d        == analysis.debug_info
            negative == SpikeBelow(0)
            fs       == analysis.factors
            reducing == SelectSeq(fs, LAMBDA f : Reduces \in f.flags)
            increasing == SelectSeq(fs, LAMBDA f : Increases \in f.flags)
            trail    == d.base_risk_from_spike
                        + d.factor_adjustments.reducing_total
                        + d.factor_adjustments.increasing_total
            cap      == d.max_risk_cap * Half
            result   == Max(0, Min(100 * Half, Min(cap, trail)))
        IN  /\ d.base_risk_from_spike
                  = base_confidence(analysis.spike_percentage) * Half
            /\ d.factor_adjustments.reducing_total
                  = 0 - reducing_total(reducing, negative)
            /\ d.factor_adjustments.increasing_total
                  = increasing_total(increasing, negative)
            /\ d.max_risk_cap = (IF negative
                                 THEN max_risk(analysis.spike_percentage)
                                 ELSE 100)
            /\ result = d.final_confidence
            /\ result = confidence

\* C15: the confidence returned is a whole number of points, for every
\* analysis, low-impact factors and negative spikes included.
C15_IntegerConfidence ==
    pc = "scored" => confidence % Half = 0

C17_ScorerOnlyAddsBreakdown ==
    [][(pc' \in {"scored", "rescored"})
          => /\ DOMAIN analysis' = DOMAIN analysis \cup {"debug_info"}
             /\ \A k \in DOMAIN analysis \ {"debug_info"} :
                    analysis'[k] = analysis[k]]_vars

\* C17 witness: an analysis with an increasing factor ahead of a reducing
\* one has been scored, and scored again over its breakdown.
C17_RescoredMixedFactors ==
    /\ pc = "rescored"
    /\ "debug_info" \in DOMAIN analysis
    /\ \E i, j \in DOMAIN analysis.factors :
           /\ i < j
           /\ analysis.factors[i].flags = {Increases}
           /\ analysis.factors[j].flags = {Reduces}

\* C18: with the empty campaign table substituted for an unreadable
\* campaign source, a medicine that has sales gets an analysis without a
\* campaign factor; the call never ends in an error.
C18_EmptyCampaignsNotFatal ==
    (campaigns_df = EmptyFrame /\ MedRows # {} /\ pc # "start") =>
        /\ analysis.kind = "analysis"
        /\ \A i \in DOMAIN analysis.factors :
               analysis.factors[i].type # "campaign"

\* C19: period_count of a returned analysis is the number of valid periods
\* of the medicine, in both baseline modes, 0 included.
C19_PeriodCountIsValidCount ==
    Returned => analysis.period_count = Cardinality(ValidKeys)

\* C20: no ratio of the analysis divides by zero.  For a returned analysis
\* the day count of the history, the denominators of baseline and spike, the
\* day count of the period, the branch and age-group totals and the number
\* of purchase events are all at least 1, and a baseline of 0 gives a spike
\* of 0.
C20_NoZeroDenominator ==
    Returned =>
        LET ms    == medicine_sales_of(medicine_name, sales_df)
            slice == current_period_sales(period_type, ms, analysis)
        IN  /\ total_days(ms) >= 1
            /\ analysis.baseline_avg.den >= 1
            /\ analysis.spike_percentage.den >= 1
            /\ (analysis.baseline_avg.num = 0
                   => analysis.spike_percentage.num = 0)
            /\ (analysis.period_end - analysis.period_start) + 1 >= 1
            /\ Cardinality({r.branch_name : r \in Range(sales_df)}) >= 1
            /\ Cardinality({r.age_group : r \in Range(sales_df)}) >= 1
            /\ Cardinality(customer_purchases(slice)) >= 1

\* C20 witness: a history of a single day, analysed with a campaign that
\* covers that day.
C20_SingleDayHistory ==
    /\ Returned
    /\ HistoryDays = 1
    /\ analysis.period_start = analysis.period_end
    /\ \E i \in DOMAIN analysis.factors : analysis.factors[i].type = "campaign"

\* The number of factors of the analysis that carry the polarity key flag
\* and have the impact tier
FactorCount(flag, impact) ==
    Cardinality({i \in DOMAIN analysis.factors :
                    /\ flag \in analysis.factors[i].flags
                    /\ analysis.factors[i].impact = impact})

\* C21: for a non-negative spike the confidence is the clamp to [0, 100] of
\* the base score of the spike tier, plus 12/6/3 for each high/medium/low
\* increasing factor, minus 15/8/4 for each high/medium/low reducing factor.
\* A spike of 150% without factors scores 55, and with one high campaign
\* factor 40.
C21_NonNegativeSpikeFormula ==
    (pc = "scored" /\ ~SpikeBelow(0)) =>
        LET points == base_confidence(analysis.spike_percentage)
                      + 12 * FactorCount(Increases, "high")
                      + 6 * FactorCount(Increases, "medium")
                      + 3 * FactorCount(Increases, "low")
                      - 15 * FactorCount(Reduces, "high")
                      - 8 * FactorCount(Reduces, "medium")
                      - 4 * FactorCount(Reduces, "low")
            spike150 == analysis.spike_percentage.num
                            = 150 * analysis.spike_percentage.den
        IN  /\ confidence = Half * Max(0, Min(100, points))
            /\ (spike150 /\ analysis.factors = <<>>) => confidence = 55 * Half
            /\ (spike150 /\ analysis.factors
                                = <<Factor("campaign", "high", {Reduces})>>)
                   => confidence = 40 * Half

\* C21 witness: a spike of 150% with one high campaign factor is scored 40.
C21_CampaignLowersByFifteen ==
    /\ pc = "scored"
    /\ analysis.spike_percentage.num = 150 * analysis.spike_percentage.den
    /\ analysis.factors = <<Factor("campaign", "high", {Reduces})>>
    /\ confidence = 40 * Half

\* The campaigns of the table, by position, that have the category of the
\* medicine (of its first row) and a date range that meets the reported
\* window in at least one day
FirstMedRow == sales_df[MinOf(MedRows)]

MatchingCampaigns ==
    {i \in DOMAIN campaigns_df.rows :
        /\ campaigns_df.rows[i].category = FirstMedRow.category
        /\ campaigns_df.rows[i].start_date <= analysis.period_end
        /\ campaigns_df.rows[i].end_date >= analysis.period_start}

\* The days of the reported window and those of them the campaign covers
WindowDays == analysis.period_start .. analysis.period_end

CoveredDays(c) == {d \in WindowDays : c.start_date <= d /\ d <= c.end_date}

CampaignFactors ==
    {i \in DOMAIN analysis.factors : analysis.factors[i].type = "campaign"}

\* C22: a campaign factor is emitted exactly when some campaign has the
\* medicine's category and a date range overlapping the window
\* [period_start, period_end], ends included.  The first such campaign of
\* the table decides the factor: high when it covers strictly more than
\* half of the window's days, medium otherwise, always reducing.
C22_CampaignFactorIff ==
    Returned =>
        /\ (CampaignFactors # {}) = (MatchingCampaigns # {})
        /\ \A i \in CampaignFactors :
               LET c == campaigns_df.rows[MinOf(MatchingCampaigns)]
               IN  /\ analysis.factors[i].flags = {Reduces}
                   /\ analysis.factors[i].impact =
                          (IF 2 * Cardinality(CoveredDays(c))
                                  > Cardinality(WindowDays)
                           THEN "high" ELSE "medium")

\* C22 witness: the first matching campaign covers exactly half of the
\* window's days and the factor is medium.
C22_HalfCoveredIsMedium ==
    /\ Returned
    /\ MatchingCampaigns # {}
    /\ 2 * Cardinality(CoveredDays(campaigns_df.rows[MinOf(MatchingCampaigns)]))
           = Cardinality(WindowDays)
    /\ \E i \in CampaignFactors : analysis.factors[i].impact = "medium"

\* The dates of the transaction slice behind current_sales and the spread,
\* sustained-pattern and co-purchase checks
SliceDates ==
    DatesOf(current_period_sales(period_type,
                                 medicine_sales_of(medicine_name, sales_df),
                                 analysis))

\* C23: in both baseline modes the reported window
\* [period_start, period_end], which the campaign check and the seasonal
\* month use, is the current period itself: it starts on the first and ends
\* on the last date of the transaction slice, and in insufficient-data mode
\* it is the trailing 7- or 30-day window.
C23_WindowIsCurrentPeriod ==
    Returned =>
        /\ analysis.period_start = MinOf(SliceDates)
        /\ analysis.period_end = MaxOf(SliceDates)
        /\ analysis.insufficient_data =>
               analysis.period_start >= MaxOf(RowDates(MedRows)) - (Nominal - 1)

\* The daily quantities of the transaction slice
DayQty(d) == QtySum({i \in MedRows : sales_df[i].date = d})

SliceTotal == QtySum({i \in MedRows : sales_df[i].date \in SliceDates})

\* The days of the slice whose quantity is above 1.5 times the mean daily
\* quantity, SliceTotal / number of days
HighDays ==
    {d \in SliceDates :
        2 * DayQty(d) * Cardinality(SliceDates) > 3 * SliceTotal}

SustainedFactors ==
    {i \in DOMAIN analysis.factors :
        analysis.factors[i].type = "sustained_pattern"}

\* C24: a sustained_pattern factor, high and increasing, is emitted exactly
\* when the period type is Weekly, the slice has sales on 3 or more days,
\* and the days above 1.5 times the mean daily quantity are 60% or more of
\* the days present; never for Monthly.
C24_SustainedPatternIff ==
    Returned =>
        /\ (SustainedFactors # {}) =
               (/\ period_type = "Weekly"
                /\ Cardinality(SliceDates) >= 3
                /\ 10 * Cardinality(HighDays) >= 6 * Cardinality(SliceDates))
        /\ \A i \in SustainedFactors :
               /\ analysis.factors[i].impact = "high"
               /\ analysis.factors[i].flags = {Increases}

\* C24 witness: a sustained_pattern factor for a week with sales from
\* Monday to Sunday, three of its days high.
C24_SustainedEmitted ==
    /\ Returned
    /\ SustainedFactors # {}
    /\ Cardinality(HighDays) = 3
    /\ MaxOf(SliceDates) - MinOf(SliceDates) = 6

\* C27: for a Weekly analysis with 3 to 7 sale days of positive quantity, a
\* sustained_pattern factor is emitted only when the slice has exactly 5
\* days and exactly 3 of them are high days.
C27_SustainedOnlyThreeOfFive ==
    (/\ Returned
     /\ period_type = "Weekly"
     /\ Cardinality(SliceDates) \in 3 .. 7
     /\ SustainedFactors # {})
        => (Cardinality(SliceDates) = 5 /\ Cardinality(HighDays) = 3)

\* C27 witness: the factor is emitted for five days selling 7, 7, 7, 1, 1.
C27_ThreeHighOfFive ==
    /\ Returned
    /\ SustainedFactors # {}
    /\ Cardinality(SliceDates) = 5
    /\ SliceTotal = 23

\* The purchase events of the transaction slice: its records grouped by
\* branch, date and hour
SliceRows == {i \in MedRows : sales_df[i].date \in SliceDates}

EventOf(i) == <<sales_df[i].branch_name, sales_df[i].date, sales_df[i].hour>>

Events == {EventOf(i) : i \in SliceRows}

MultiCategoryEvents ==
    {e \in Events :
        Cardinality({sales_df[i].category :
                        i \in {j \in SliceRows : EventOf(j) = e}}) > 1}

CrossCategoryFactors ==
    {i \in DOMAIN analysis.factors : analysis.factors[i].type = "cross_category"}

CheckOrder ==
    <<"campaign", "geographic_spread", "demographics", "sustained_pattern",
      "cross_category", "seasonal_expected">>

CheckRank(type) == CHOOSE r \in DOMAIN CheckOrder : CheckOrder[r] = type

\* C26: the factor list of a returned analysis holds at most one factor of
\* each type, in the order campaign, geographic_spread, demographics,
\* sustained_pattern, cross_category, seasonal_expected; at most 6 factors
\* for Weekly and 5 for Monthly; every impact is high or medium.
C26_FactorOrderAndCount ==
    Returned =>
        /\ \A i \in DOMAIN analysis.factors :
               /\ analysis.factors[i].type \in Range(CheckOrder)
               /\ analysis.factors[i].impact \in {"high", "medium"}
        /\ \A i, j \in DOMAIN analysis.factors :
               i < j => CheckRank(analysis.factors[i].type)
                            < CheckRank(analysis.factors[j].type)
        /\ Len(analysis.factors) <= (IF period_type = "Weekly" THEN 6 ELSE 5)

\* C26 witness: a Monthly analysis with five factors, from campaign to
\* seasonal_expected.
C26_FiveMonthlyFactors ==
    /\ Returned
    /\ period_type = "Monthly"
    /\ Len(analysis.factors) = 5
    /\ analysis.factors[1].type = "campaign"
    /\ analysis.factors[5].type = "seasonal_expected"

\* C30: in the detailed risk-factor view, the analysis the caller inspects
\* for a medicine with at least one factor has been scored, so it carries
\* the breakdown and the calculation-breakdown branch is taken.
C30_DetailedViewHasBreakdown ==
    (/\ pc = "reanalyzed"
     /\ analysis.kind = "analysis"
     /\ analysis.factors # <<>>)
        => "debug_info" \in DOMAIN analysis

\* C29: in insufficient-data mode, for a history that spans no more days
\* than the nominal period length (7 for Weekly, 30 for Monthly),
\* current_sales is the medicine's total quantity and the spike is never
\* positive: exactly 0 when the span equals the nominal length, negative
\* when it is shorter.
C29_ShortHistorySpikeNotPositive ==
    (Returned /\ analysis.insufficient_data /\ HistoryDays <= Nominal) =>
        /\ analysis.current_sales = QtySum(MedRows)
        /\ SpikeAtMost(0)
        /\ (HistoryDays = Nominal) =
               (analysis.spike_percentage.num = 0
                   /\ analysis.spike_percentage.err = 0)
        /\ (HistoryDays < Nominal) = SpikeBelow(0)

====
